---------------------------- MODULE Spec2Model ----------------------------
(***************************************************************************)
(* Model of the sylon telemetry agent (src/server/api.js): the machine    *)
(* identity resolver, the stateful CPU estimator, the delivery routine    *)
(* with bounded retries and backoff, and the agent loop around them.      *)
(*                                                                         *)
(* Units.  Time is counted in quanta; QuantaPerSecond quanta make one     *)
(* second.  Percentages returned by calculateCpuPercent are carried in    *)
(* tenths of a percent (1000 is 100.0), which is the grain of toFixed(1). *)
(***************************************************************************)
EXTENDS Integers, Sequences, FiniteSets, TLC

VARIABLES
    previousCpuTicks,   \* api.js:106  module-level CPU sample state
    cpuCall,            \* observation of the last calculateCpuPercent call
    fs,                 \* the files getMachineId reads and writes
    uuidCtr,            \* number of crypto.randomUUID() values drawn so far
    idCalls,            \* values returned by getMachineId, in call order
    cfg,                \* the configuration object returned by loadConfig
    env,                \* what the endpoint may answer to a request
    now,                \* the clock, in quanta
    mainPc,             \* where main() stands
    timerNext,          \* due time of the setInterval timer, -1 when unarmed
    tasks,              \* one record per tick started (collect + sendPayload)
    exitStatus          \* whether process.exit was called, and its status

cpuVars  == <<previousCpuTicks, cpuCall>>
idVars   == <<fs, uuidCtr, idCalls>>
loopVars == <<cfg, env, now, mainPc, timerNext, tasks, exitStatus>>
vars     == <<previousCpuTicks, cpuCall, fs, uuidCtr, idCalls,
              cfg, env, now, mainPc, timerNext, tasks, exitStatus>>

---------------------------------------------------------------------------
(* Bounds of the model. *)

MaxCpus == 2       \* logical CPUs in a reading of the CPU specification
MaxTick == 1       \* largest idle or busy tick count of one CPU there
MaxIdCalls == 2    \* calls of getMachineId in the identity specification
MaxRetries == 3    \* largest cfg.max_retries
MaxTicks == 3      \* ticks (collect + send) the agent loop is followed for
MaxTime == 100     \* the clock stops here

---------------------------------------------------------------------------
(* Small helpers. *)

RECURSIVE SumSeq(_)
SumSeq(s) == IF s = <<>> THEN 0 ELSE Head(s) + SumSeq(Tail(s))

RECURSIVE Pow(_, _)
Pow(b, e) == IF e <= 0 THEN 1 ELSE b * Pow(b, e - 1)

SetMin(S) == CHOOSE x \in S : \A y \in S : x <= y

\* Sequences over S of length lo..hi.
SeqsOf(S, lo, hi) == UNION { [1..n -> S] : n \in lo..hi }

---------------------------------------------------------------------------
(* CPU estimator, api.js:106-144. *)

\* One entry of os.cpus(): times.idle, and busy = user + nice + sys + irq.
CpuTimes == [idle : 0..MaxTick, busy : 0..MaxTick]

\* The readings os.cpus() may give: one entry per logical CPU online.
Readings == SeqsOf(CpuTimes, 1, MaxCpus)

NullTicks == [isNull |-> TRUE, ticks |-> <<>>]

StoredTicks(t) == [isNull |-> FALSE, ticks |-> t]

\* api.js:113-119  the map over cpus: {idle, total} per CPU.
CurrentTicks(cpus) ==
    [i \in 1..Len(cpus) |->
        [idle |-> cpus[i].idle, total |-> cpus[i].busy + cpus[i].idle]]

\* api.js:140  parseFloat((100 - idle/total*100).toFixed(1)), in tenths of a
\* percent: 1000*(total-idle)/total rounded to the nearest integer, halves
\* away from zero.  total > 0.
ToFixed1(idleDifference, totalDifference) ==
    LET num == 1000 * (totalDifference - idleDifference)
        den == totalDifference
    IN  IF num >= 0 THEN (2 * num + den) \div (2 * den)
                    ELSE 0 - ((2 * (0 - num) + den) \div (2 * den))

\* Mutant: the warm-up branch of api.js:121-125 is missing; a null state is
\* read as all-zero previous ticks.
CalcNoWarmup(prev, cpus) ==
    LET cur == CurrentTicks(cpus)
        idleD  == SumSeq([i \in 1..Len(cur) |-> cur[i].idle])
        totalD == SumSeq([i \in 1..Len(cur) |-> cur[i].total])
    IN  IF prev.isNull
        THEN [threw |-> FALSE,
              value |-> IF totalD > 0 THEN ToFixed1(idleD, totalD) ELSE 0,
              state |-> StoredTicks(cur)]
        ELSE [threw |-> Len(cur) > Len(prev.ticks), value |-> 0,
              state |-> IF Len(cur) > Len(prev.ticks) THEN prev
                        ELSE StoredTicks(cur)]

\* api.js:108-144  calculateCpuPercent as a function of the stored state and
\* of the reading: whether it threw, the value returned, the state left.
\* The loop of api.js:130-133 reads previousCpuTicks[i] for every current
\* CPU; with more CPUs than the stored reading has, previousCpuTicks[i] is
\* undefined and reading .idle of it throws a TypeError before api.js:135.
calculateCpuPercent(prev, cpus) ==
    LET cur == CurrentTicks(cpus)
    IN  IF prev.isNull
        THEN [threw |-> FALSE, value |-> 0, state |-> StoredTicks(cur)]
        ELSE IF Len(cur) > Len(prev.ticks)
        THEN [threw |-> TRUE, value |-> 0, state |-> prev]
        ELSE LET idleDifference ==
                     SumSeq([i \in 1..Len(cur) |->
                                 cur[i].idle - prev.ticks[i].idle])
                 totalDifference ==
                     SumSeq([i \in 1..Len(cur) |->
                                 cur[i].total - prev.ticks[i].total])
             IN  [threw |-> FALSE,
                  value |-> IF totalDifference > 0
                            THEN ToFixed1(idleDifference, totalDifference)
                            ELSE 0,
                  state |-> StoredTicks(cur)]

NoCpuCall == [called |-> FALSE, prev |-> NullTicks, cur |-> <<>>,
              threw |-> FALSE, value |-> 0]

\* One call of calculateCpuPercent with reading cpus; returns whether it
\* threw through the primed variables.
CpuCallRecord(prev, cpus) ==
    LET r == calculateCpuPercent(prev, cpus)
    IN  [called |-> TRUE, prev |-> prev, cur |-> cpus,
         threw |-> r.threw, value |-> r.value]

---------------------------------------------------------------------------
(* Machine identity, api.js:64-101. *)

Whitespace == {" ", "\n"}

\* Raw contents a file may hold, as sequences of characters.
FileContents == { <<>>, <<" ">>, <<"a", "\n">>, <<"b">> }

RECURSIVE TrimLeft(_)
TrimLeft(s) == IF s # <<>> /\ Head(s) \in Whitespace
               THEN TrimLeft(Tail(s)) ELSE s

RECURSIVE TrimRight(_)
TrimRight(s) == IF s # <<>> /\ s[Len(s)] \in Whitespace
                THEN TrimRight(SubSeq(s, 1, Len(s) - 1)) ELSE s

\* String.prototype.trim
Trim(s) == TrimRight(TrimLeft(s))

AbsentFile == [exists |-> FALSE, readable |-> FALSE, content |-> <<>>]

Files == {AbsentFile}
         \cup { [exists |-> TRUE, readable |-> FALSE, content |-> <<>>] }
         \cup { [exists |-> TRUE, readable |-> TRUE, content |-> c] :
                    c \in FileContents }

\* api.js:66  the candidate paths, in order.
OsIdPaths == <<"/etc/machine-id", "/var/lib/dbus/machine-id">>

\* crypto.randomUUID(): the n-th value drawn; distinct draws differ.
RandomUUID(n) == <<"uuid", ToString(n)>>

\* The file system states of the model: the two OS identity files, the
\* persistence file /var/lib/sylon/id and its directory.  dir.writable says
\* that the directory can be written or, when absent, created.
FsStates ==
    { f \in [os : [DOMAIN OsIdPaths -> Files], persist : Files,
             dir : [exists : BOOLEAN, writable : BOOLEAN]] :
        f.persist.exists => f.dir.exists }

\* Mutant: no try/catch around step 2 (api.js:78, 96-100); an error of
\* readFileSync, mkdirSync or writeFileSync leaves getMachineId.
PersistentIdNoCatch(f, ctr) ==
    IF f.persist.exists
    THEN IF f.persist.readable
         THEN [threw |-> FALSE, value |-> Trim(f.persist.content),
               fs |-> f, ctr |-> ctr]
         ELSE [threw |-> TRUE, value |-> <<>>, fs |-> f, ctr |-> ctr]
    ELSE LET mid == RandomUUID(ctr + 1)
         IN  IF f.dir.writable
             THEN [threw |-> FALSE, value |-> mid,
                   fs |-> [f EXCEPT !.dir.exists = TRUE,
                                    !.persist = [exists |-> TRUE,
                                                 readable |-> TRUE,
                                                 content |-> mid]],
                   ctr |-> ctr + 1]
             ELSE [threw |-> TRUE, value |-> <<>>, fs |-> f, ctr |-> ctr + 1]

\* api.js:77-100  step 2 and 3: the persistence file, a generated UUID.
PersistentId(f, ctr) ==
    IF f.persist.exists
    THEN IF f.persist.readable
         THEN [threw |-> FALSE, value |-> Trim(f.persist.content),
               fs |-> f, ctr |-> ctr]
         ELSE \* readFileSync throws: api.js:96-99
              [threw |-> FALSE, value |-> RandomUUID(ctr + 1), fs |-> f,
               ctr |-> ctr + 1]
    ELSE LET mid == RandomUUID(ctr + 1)
         IN  IF f.dir.writable
             THEN \* mkdirSync when needed, writeFileSync, return mid
                  [threw |-> FALSE, value |-> mid,
                   fs |-> [f EXCEPT !.dir.exists = TRUE,
                                    !.persist = [exists |-> TRUE,
                                                 readable |-> TRUE,
                                                 content |-> mid]],
                   ctr |-> ctr + 1]
             ELSE \* mkdirSync or writeFileSync throws: a second UUID
                  [threw |-> FALSE, value |-> RandomUUID(ctr + 2), fs |-> f,
                   ctr |-> ctr + 2]

\* api.js:64-101  getMachineId: whether an exception leaves it, the value
\* returned, the file system and the UUID counter it leaves.  Step 1
\* returns the trimmed content of the first candidate that exists and can
\* be read; a read error moves to the next.
getMachineId(f, ctr) ==
    LET Readable(k) == f.os[k].exists /\ f.os[k].readable
    IN  IF \E k \in DOMAIN OsIdPaths : Readable(k)
        THEN LET i == CHOOSE k \in DOMAIN OsIdPaths :
                         /\ Readable(k)
                         /\ \A j \in 1..(k - 1) : ~Readable(j)
             IN  [threw |-> FALSE, value |-> Trim(f.os[i].content),
                  fs |-> f, ctr |-> ctr]
        ELSE PersistentId(f, ctr)

---------------------------------------------------------------------------
(* Configuration and endpoint, api.js:23-31 and 223-246. *)

\* Quanta per second: the model's counterpart of the factor 1000 that turns
\* seconds into timer milliseconds (api.js:245, 290, 322).
QuantaPerSecond == 4

\* cfg.endpoint: the unset sentinel of api.js:24, an URL string, or a YAML
\* value that is no string (url.parse throws a TypeError on it).
Endpoints == {"NULL", "url", "nonstring"}

\* The configurations of the model.  interval_seconds, max_retries and
\* backoff_base are whole numbers; timeout_seconds and jitter are fractions
\* of a second and are held in quanta (jitter 2 is 0.5 s).
Configs ==
    [endpoint : Endpoints, max_retries : 1..MaxRetries,
     interval_seconds : {1, 8}, timeout_seconds : {1},
     backoff_base : {2}, jitter : {0, 2}]

Status(n) == [type |-> "status", status |-> n]
TransportError == [type |-> "error", status |-> 0]
TimedOut == [type |-> "timeout", status |-> 0]

\* What one request may end with: a response with a status code, an
\* 'error' event of the request, or the 'timeout' event of api.js:259.
Responses == { Status(n) : n \in {199, 200, 299, 300, 400, 499, 500} }
             \cup {TransportError, TimedOut}

\* Endpoint behaviours the agent loop is followed under.
LoopEnvs == { {Status(200)}, {Status(404)}, {Status(500)}, {TimedOut} }

\* os.cpus() readings the agent loop is followed under: one CPU, two CPUs.
LoopReadings == { <<[idle |-> 1, busy |-> 1]>>,
                  <<[idle |-> 1, busy |-> 1], [idle |-> 0, busy |-> 1]>> }

\* File systems the agent loop is followed under: /etc/machine-id present,
\* or no identity file and a persistence directory that cannot be written.
LoopFs ==
    { [os |-> [i \in DOMAIN OsIdPaths |-> IF i = 1
                 THEN [exists |-> TRUE, readable |-> TRUE,
                       content |-> <<"a", "\n">>]
                 ELSE AbsentFile],
       persist |-> AbsentFile, dir |-> [exists |-> TRUE, writable |-> TRUE]],
      [os |-> [i \in DOMAIN OsIdPaths |-> AbsentFile],
       persist |-> AbsentFile,
       dir |-> [exists |-> FALSE, writable |-> FALSE]] }

Running == [exited |-> FALSE, code |-> 0, signal |-> "none"]

\* Mutant: the handler of api.js:326-329 records the status and returns
\* (process.exitCode = 0); the event loop goes on.
AliveAlways == TRUE

\* The process has not ended: callbacks and timers still run.
Alive == ~exitStatus.exited

---------------------------------------------------------------------------
(* Delivery, api.js:223-296. *)

\* api.js:232  JSON.stringify(payload)
Serialize(p) == <<"{", p.timestamp, p.machine_id, p.cpu_percent, "}">>

\* Mutant: the lower bound of the accepted range is exclusive.
ClassifyAbove200(statusCode) ==
    IF statusCode > 200 /\ statusCode < 300 THEN "accepted"
    ELSE IF statusCode >= 400 /\ statusCode < 500 THEN "client_error"
    ELSE "server_error"

\* Mutant: the lower bound of the client-error range is exclusive.
ClassifyAbove400(statusCode) ==
    IF statusCode >= 200 /\ statusCode < 300 THEN "accepted"
    ELSE IF statusCode > 400 /\ statusCode < 500 THEN "client_error"
    ELSE "server_error"

\* api.js:273-281  the three-way classification of a status code.
Classify(statusCode) ==
    IF statusCode >= 200 /\ statusCode < 300 THEN "accepted"
    ELSE IF statusCode >= 400 /\ statusCode < 500 THEN "client_error"
    ELSE "server_error"

\* Mutant: the last attempt too is followed by a sleep and a retry.
MayRetryInclusive(attempt) == attempt <= cfg.max_retries

\* api.js:286  whether a failed attempt is followed by a sleep and a retry.
MayRetry(attempt) == attempt < cfg.max_retries

\* api.js:288  Math.random() * jitter, Math.random() in [0, 1): the whole
\* quanta below jitter.
JitterDraws == IF cfg.jitter = 0 THEN {0} ELSE 0..(cfg.jitter - 1)

\* Mutant: the exponent counts attempts from zero.
SleepTimeFromZero(attempt, r) ==
    Pow(cfg.backoff_base, attempt - 1) * QuantaPerSecond + r

\* api.js:288  (backoff_base ** attempt) + (Math.random() * jitter), in quanta.
SleepTime(attempt, r) ==
    Pow(cfg.backoff_base, attempt) * QuantaPerSecond + r

\* api.js:245  the request timeout, in quanta.
Timeout == cfg.timeout_seconds

\* api.js:302, 322  parseInt(cfg.interval_seconds, 10) * 1000, in quanta.
Interval == cfg.interval_seconds * QuantaPerSecond

\* Return values of sendPayload.
RetUnconfigured == "false"     \* api.js:228
RetAccepted == "true"          \* api.js:275
RetClientError == "false"      \* api.js:278
RetExhausted == "false"        \* api.js:295

\* A tick that has not yet called sendPayload.
BlankTask(id, payload) ==
    [id |-> id, pc |-> "done", attempt |-> 0, due |-> 0,
     payload |-> payload, sent |-> <<>>, sleeps |-> <<>>, resps |-> <<>>,
     result |-> "none", thrower |-> "none", logs |-> <<>>,
     started |-> now, ended |-> now]

\* Mutant: the payload is stamped and serialized anew for each attempt.
IssueRequestRestamped(t, attempt) ==
    [t EXCEPT !.pc = "request", !.attempt = attempt,
              !.due = now + Timeout,
              !.sent = Append(@, Serialize(
                           [t.payload EXCEPT
                                !.timestamp = now \div QuantaPerSecond]))]

\* api.js:250-269  the request of one attempt is written and ended.
IssueRequest(t, attempt) ==
    [t EXCEPT !.pc = "request", !.attempt = attempt,
              !.due = now + Timeout,
              !.sent = Append(@, Serialize(t.payload))]

\* Mutant: the attempt counter outlives the call; a new call goes on from
\* the count the call before it reached.
SendStartSharedCounter(id, payload) ==
    LET t == BlankTask(id, payload)
        first == IF tasks = <<>> THEN 1 ELSE tasks[Len(tasks)].attempt + 1
    IN  IF cfg.endpoint = "NULL"
        THEN [t EXCEPT !.result = RetUnconfigured,
                       !.logs = <<<<"ERROR", "unconfigured">>>>]
        ELSE IF cfg.endpoint = "nonstring"
        THEN [t EXCEPT !.result = "threw", !.thrower = "sendPayload"]
        ELSE IF cfg.max_retries < first
        THEN [t EXCEPT !.result = RetExhausted,
                       !.logs = <<<<"ERROR", "all_failed">>>>]
        ELSE IssueRequest(t, first)

\* Mutant: the sentinel check of api.js:226-229 is missing.
SendStartNoSentinel(id, payload) ==
    LET t == BlankTask(id, payload)
    IN  IF cfg.endpoint = "nonstring"
        THEN [t EXCEPT !.result = "threw", !.thrower = "sendPayload"]
        ELSE IssueRequest(t, 1)

\* api.js:223-248  sendPayload up to its first await.
SendStart(id, payload) ==
    LET t == BlankTask(id, payload)
    IN  IF cfg.endpoint = "NULL"
        THEN [t EXCEPT !.result = RetUnconfigured,
                       !.logs = <<<<"ERROR", "unconfigured">>>>]
        ELSE IF cfg.endpoint = "nonstring"
        THEN \* url.parse(endpoint) throws; the promise is rejected
             [t EXCEPT !.result = "threw", !.thrower = "sendPayload"]
        ELSE IF cfg.max_retries < 1
        THEN [t EXCEPT !.result = RetExhausted,
                       !.logs = <<<<"ERROR", "all_failed">>>>]
        ELSE IssueRequest(t, 1)

\* api.js:286-295  after an attempt that was neither accepted nor refused.
AfterFailure(t, r) ==
    IF MayRetry(t.attempt)
    THEN [t EXCEPT !.pc = "sleep",
                   !.due = now + SleepTime(t.attempt, r),
                   !.sleeps = Append(@, SleepTime(t.attempt, r)),
                   !.logs = Append(@, <<"INFO", "retry_in">>)]
    ELSE [t EXCEPT !.pc = "done", !.result = RetExhausted, !.ended = now,
                   !.logs = Append(@, <<"ERROR", "all_failed">>)]

\* Mutant: no try/catch inside the retry loop (api.js:249, 282-284); a
\* rejected request rejects the promise of sendPayload.
OnSettledNoCatch(t, resp, r) ==
    LET t1 == [t EXCEPT !.resps = Append(@, resp)]
    IN  IF resp.type = "status"
        THEN IF Classify(resp.status) = "accepted"
             THEN [t1 EXCEPT !.pc = "done", !.result = RetAccepted,
                             !.ended = now,
                             !.logs = Append(@, <<"INFO", "accepted">>)]
             ELSE IF Classify(resp.status) = "client_error"
             THEN [t1 EXCEPT !.pc = "done", !.result = RetClientError,
                             !.ended = now,
                             !.logs = Append(@, <<"ERROR", "client_error">>)]
             ELSE AfterFailure(
                      [t1 EXCEPT !.logs = Append(@, <<"WARN", "server_error">>)],
                      r)
        ELSE [t1 EXCEPT !.pc = "done", !.result = "threw",
                        !.thrower = "sendPayload", !.ended = now]

\* api.js:271-291  the attempt's promise settles with resp.
OnSettled(t, resp, r) ==
    LET t1 == [t EXCEPT !.resps = Append(@, resp)]
    IN  IF resp.type = "status"
        THEN IF Classify(resp.status) = "accepted"
             THEN [t1 EXCEPT !.pc = "done", !.result = RetAccepted,
                             !.ended = now,
                             !.logs = Append(@, <<"INFO", "accepted">>)]
             ELSE IF Classify(resp.status) = "client_error"
             THEN [t1 EXCEPT !.pc = "done", !.result = RetClientError,
                             !.ended = now,
                             !.logs = Append(@, <<"ERROR", "client_error">>)]
             ELSE AfterFailure(
                      [t1 EXCEPT !.logs = Append(@, <<"WARN", "server_error">>)],
                      r)
        ELSE AfterFailure(
                 [t1 EXCEPT !.logs = Append(@, <<"WARN", "request_failed">>)],
                 r)

---------------------------------------------------------------------------
(* Agent loop, api.js:300-332. *)

Active(t) == t.pc # "done"

\* Mutant: no try/catch around the first tick (api.js:307-312); an
\* exception rejects main() and setInterval is never reached.
AfterFirstTickNoCatch(newTasks) ==
    IF Active(newTasks[1])
    THEN mainPc' = "firstTick" /\ UNCHANGED timerNext
    ELSE IF newTasks[1].result = "threw"
    THEN mainPc' = "rejected" /\ UNCHANGED timerNext
    ELSE mainPc' = "looping" /\ timerNext' = now + Interval

\* Mutant: the interval is counted from the start of the first tick.
AfterFirstTickFromStart(newTasks) ==
    IF Active(newTasks[1])
    THEN mainPc' = "firstTick" /\ UNCHANGED timerNext
    ELSE mainPc' = "looping" /\ timerNext' = newTasks[1].started + Interval

\* api.js:307-322  main() around its first tick: it waits while sendPayload
\* is pending; once the try block is left, by its end or by the catch, it
\* arms the interval timer.
AfterFirstTick(newTasks) ==
    IF Active(newTasks[1])
    THEN mainPc' = "firstTick" /\ UNCHANGED timerNext
    ELSE mainPc' = "looping" /\ timerNext' = now + Interval

\* A step of a pending sendPayload; main() resumes when it was waiting.
MainResumes(newTasks) ==
    IF mainPc = "firstTick"
    THEN AfterFirstTick(newTasks)
    ELSE UNCHANGED <<mainPc, timerNext>>

\* api.js:162-219 and 307-312, 316-321  one tick: collectMetrics, then
\* sendPayload up to its first await; an exception of either is caught.
Tick(id, cpus) ==
    LET idr == getMachineId(fs, uuidCtr)
        cpu == calculateCpuPercent(previousCpuTicks, cpus)
        payload == [timestamp |-> now \div QuantaPerSecond,
                    machine_id |-> idr.value,
                    cpu_percent |-> cpu.value]
        task == IF cpu.threw
                THEN [BlankTask(id, payload) EXCEPT
                          !.result = "threw", !.thrower = "collectMetrics",
                          !.logs = <<<<"ERROR", "caught">>>>]
                ELSE LET s == SendStart(id, payload)
                     IN  IF s.result = "threw"
                         THEN [s EXCEPT !.logs = <<<<"ERROR", "caught">>>>]
                         ELSE s
    IN  /\ fs' = idr.fs
        /\ uuidCtr' = idr.ctr
        /\ idCalls' = Append(idCalls, idr.value)
        /\ previousCpuTicks' = cpu.state
        /\ cpuCall' = CpuCallRecord(previousCpuTicks, cpus)
        /\ tasks' = Append(tasks, task)

\* Mutant: main() only arms the interval timer (api.js:315); the first
\* tick of api.js:307-312 is missing.
MainStartTimerOnly ==
    /\ Alive
    /\ mainPc = "start"
    /\ mainPc' = "looping"
    /\ timerNext' = now + Interval
    /\ UNCHANGED <<cpuVars, idVars, cfg, env, now, tasks, exitStatus>>

\* api.js:300-312  main() up to the await of the first sendPayload.
MainStart ==
    /\ Alive
    /\ mainPc = "start"
    /\ \E cpus \in LoopReadings : Tick(1, cpus)
    /\ AfterFirstTick(tasks')
    /\ UNCHANGED <<cfg, env, now, exitStatus>>

\* api.js:315-322  the setInterval callback.
TimerFire ==
    /\ Alive
    /\ mainPc = "looping"
    /\ timerNext = now
    /\ Len(tasks) < MaxTicks
    /\ \E cpus \in LoopReadings : Tick(Len(tasks) + 1, cpus)
    /\ timerNext' = now + Interval
    /\ UNCHANGED <<cfg, env, now, mainPc, exitStatus>>

\* A response or an 'error' event arrives before the request times out.
Respond(i) ==
    /\ Alive
    /\ tasks[i].pc = "request"
    /\ now < tasks[i].due
    /\ \E resp \in env \ {TimedOut} : \E r \in JitterDraws :
          tasks' = [tasks EXCEPT ![i] = OnSettled(tasks[i], resp, r)]
    /\ MainResumes(tasks')
    /\ UNCHANGED <<cpuVars, idVars, cfg, env, now, exitStatus>>

\* api.js:259-265  the request times out: destroy, 'error', reject.
RequestTimeout(i) ==
    /\ Alive
    /\ tasks[i].pc = "request"
    /\ now = tasks[i].due
    /\ \E r \in JitterDraws :
          tasks' = [tasks EXCEPT ![i] = OnSettled(tasks[i], TimedOut, r)]
    /\ MainResumes(tasks')
    /\ UNCHANGED <<cpuVars, idVars, cfg, env, now, exitStatus>>

\* api.js:290, 248  the backoff sleep ends; the next attempt is issued.
Wake(i) ==
    /\ Alive
    /\ tasks[i].pc = "sleep"
    /\ now = tasks[i].due
    /\ tasks' = [tasks EXCEPT ![i] = IssueRequest(tasks[i], tasks[i].attempt + 1)]
    /\ UNCHANGED <<cpuVars, idVars, cfg, env, now, mainPc, timerNext,
                   exitStatus>>

\* The interval timer counts while ticks remain to be followed.
TimerPending == mainPc = "looping" /\ Len(tasks) < MaxTicks

\* Due times of the pending timers and requests.
Dues ==
    { tasks[i].due : i \in { j \in 1..Len(tasks) : Active(tasks[j]) } }
    \cup (IF TimerPending THEN {timerNext} ELSE {})

RequestPending == \E i \in 1..Len(tasks) : tasks[i].pc = "request"

\* Time passes: to the next quantum while a request is in flight (its
\* response may come at any time), else to the next timer that is due.
\* Nothing that is due now is passed over, and a request of an endpoint
\* that never lets a request time out is answered before its timeout.
Advance ==
    /\ Alive
    /\ Dues # {}
    /\ \A d \in Dues : d > now
    /\ RequestPending /\ TimedOut \notin env =>
          \A i \in 1..Len(tasks) :
              tasks[i].pc = "request" => tasks[i].due > now + 1
    /\ now' = IF RequestPending THEN now + 1 ELSE SetMin(Dues)
    /\ now' <= MaxTime
    /\ UNCHANGED <<cpuVars, idVars, cfg, env, mainPc, timerNext, tasks,
                   exitStatus>>

\* api.js:326-329  SIGINT: the listener logs and calls process.exit(0).
Sigint ==
    /\ ~exitStatus.exited
    /\ exitStatus' = [exited |-> TRUE, code |-> 0, signal |-> "SIGINT"]
    /\ UNCHANGED <<cpuVars, idVars, cfg, env, now, mainPc, timerNext, tasks>>

\* SIGTERM: api.js:326 registers a listener for 'SIGINT' only, so the signal
\* takes its default action and ends the process; the status the parent
\* sees is 128 + 15.
Sigterm ==
    /\ ~exitStatus.exited
    /\ exitStatus' = [exited |-> TRUE, code |-> 128 + 15, signal |-> "SIGTERM"]
    /\ UNCHANGED <<cpuVars, idVars, cfg, env, now, mainPc, timerNext, tasks>>

Init ==
    /\ previousCpuTicks = NullTicks
    /\ cpuCall = NoCpuCall
    /\ fs \in LoopFs
    /\ uuidCtr = 0
    /\ idCalls = <<>>
    /\ cfg \in { c \in Configs : c.jitter = 2 }
    /\ env \in LoopEnvs
    /\ now = 0
    /\ mainPc = "start"
    /\ timerNext = -1
    /\ tasks = <<>>
    /\ exitStatus = Running

Next ==
    \/ MainStart
    \/ TimerFire
    \/ \E i \in 1..Len(tasks) : Respond(i)
    \/ \E i \in 1..Len(tasks) : RequestTimeout(i)
    \/ \E i \in 1..Len(tasks) : Wake(i)
    \/ Advance
    \/ Sigint
    \/ Sigterm

Spec == Init /\ [][Next]_vars

---------------------------------------------------------------------------
(* One call of sendPayload against an endpoint that may answer anything. *)

Payloads == { [timestamp |-> 0, machine_id |-> <<"b">>, cpu_percent |-> 0] }

\* sendPayload(cfg, payload) is called.
CallSendPayload ==
    /\ mainPc = "call"
    /\ tasks = <<>>
    /\ \E p \in Payloads : tasks' = <<SendStart(1, p)>>
    /\ UNCHANGED <<cpuVars, idVars, cfg, env, now, mainPc, timerNext,
                   exitStatus>>

InitDeliver ==
    /\ previousCpuTicks = NullTicks
    /\ cpuCall = NoCpuCall
    /\ fs \in { f \in LoopFs : f.os[1].exists }
    /\ uuidCtr = 0
    /\ idCalls = <<>>
    /\ cfg \in { c \in Configs : c.interval_seconds = 1 }
    /\ env = Responses
    /\ now = 0
    /\ mainPc = "call"
    /\ timerNext = -1
    /\ tasks = <<>>
    /\ exitStatus = Running

NextDeliver ==
    \/ CallSendPayload
    \/ \E i \in 1..Len(tasks) : Respond(i)
    \/ \E i \in 1..Len(tasks) : RequestTimeout(i)
    \/ \E i \in 1..Len(tasks) : Wake(i)
    \/ Advance

SpecDeliver == InitDeliver /\ [][NextDeliver]_vars

---------------------------------------------------------------------------
(* calculateCpuPercent applied once to a stored state and a reading. *)

\* The states previousCpuTicks can hold: null, or the ticks of a reading.
CpuStates == {NullTicks} \cup { StoredTicks(CurrentTicks(r)) : r \in Readings }

\* calculateCpuPercent() is called and os.cpus() gives cpus.
CpuSample ==
    /\ ~cpuCall.called
    /\ \E cpus \in Readings :
          /\ cpuCall' = CpuCallRecord(previousCpuTicks, cpus)
          /\ previousCpuTicks' = calculateCpuPercent(previousCpuTicks, cpus).state
    /\ UNCHANGED <<idVars, loopVars>>

InitCpu ==
    /\ previousCpuTicks \in CpuStates
    /\ cpuCall = NoCpuCall
    /\ fs \in { f \in LoopFs : f.os[1].exists }
    /\ uuidCtr = 0
    /\ idCalls = <<>>
    /\ cfg \in { c \in Configs : c.endpoint = "NULL" /\ c.max_retries = 1
                                 /\ c.interval_seconds = 1 /\ c.jitter = 0 }
    /\ env = {}
    /\ now = 0
    /\ mainPc = "cpu"
    /\ timerNext = -1
    /\ tasks = <<>>
    /\ exitStatus = Running

NextCpu == CpuSample

SpecCpu == InitCpu /\ [][NextCpu]_vars

---------------------------------------------------------------------------
(* getMachineId called repeatedly in one process on one file system. *)

\* getMachineId() is called.
ResolveId ==
    /\ Len(idCalls) < MaxIdCalls
    /\ LET r == getMachineId(fs, uuidCtr)
       IN  /\ idCalls' = Append(idCalls, r.value)
           /\ fs' = r.fs
           /\ uuidCtr' = r.ctr
    /\ UNCHANGED <<cpuVars, loopVars>>

InitId ==
    /\ previousCpuTicks = NullTicks
    /\ cpuCall = NoCpuCall
    /\ fs \in FsStates
    /\ uuidCtr = 0
    /\ idCalls = <<>>
    /\ cfg \in { c \in Configs : c.endpoint = "NULL" /\ c.max_retries = 1
                                 /\ c.interval_seconds = 1 /\ c.jitter = 0 }
    /\ env = {}
    /\ now = 0
    /\ mainPc = "id"
    /\ timerNext = -1
    /\ tasks = <<>>
    /\ exitStatus = Running

NextId == ResolveId

SpecId == InitId /\ [][NextId]_vars

---------------------------------------------------------------------------
(* Observations on a tick record, used by the properties below. *)

\* The tick called sendPayload (collectMetrics did not throw).
Called(t) == t.thrower # "collectMetrics"

\* Network attempts made by the tick's sendPayload call.
Attempts(t) == Len(t.sent)

LastLog(t) == t.logs[Len(t.logs)]

TaskIds == 1..Len(tasks)

IsClientError(resp) ==
    resp.type = "status" /\ resp.status >= 400 /\ resp.status < 500

\* Bounds of the k-th backoff sleep, in quanta: backoff_base^k seconds and
\* backoff_base^k + jitter seconds.
SleepLow(k) == Pow(cfg.backoff_base, k) * QuantaPerSecond
SleepHigh(k) == Pow(cfg.backoff_base, k) * QuantaPerSecond + cfg.jitter

---------------------------------------------------------------------------
(* Delivery properties, checked under SpecDeliver. *)

\* C1: when the endpoint answers 500 to the first N-1 attempts of a call and
\* 200 to attempt N (1 <= N <= max_retries), the call has returned true
\* after exactly N attempts and N-1 sleeps; nothing is sent after the 200.
C1_DeliveredAtAttemptN ==
    \A i \in TaskIds : \A n \in 1..cfg.max_retries :
        LET t == tasks[i]
        IN  ( /\ Len(t.resps) >= n
              /\ \A k \in 1..(n - 1) : t.resps[k] = Status(500)
              /\ t.resps[n] = Status(200) )
            => /\ t.pc = "done"
               /\ t.result = "true"
               /\ Len(t.resps) = n
               /\ Attempts(t) = n
               /\ Len(t.sleeps) = n - 1

\* C1 witness: 500, 500, then 200 on the third attempt.
C1_Witness ==
    \E i \in TaskIds :
        /\ tasks[i].resps = <<Status(500), Status(500), Status(200)>>
        /\ tasks[i].result = "true"
        /\ Attempts(tasks[i]) = 3

\* C2: when every answer is 500, the call makes max_retries attempts and no
\* more, sleeps once between consecutive attempts and not after the last,
\* the k-th sleep lies in [backoff_base^k, backoff_base^k + jitter], and the
\* call ends, after the answer to attempt max_retries and not before, by
\* returning false on the "all attempts failed" path.
C2_AlwaysServerError ==
    \A i \in TaskIds :
        LET t == tasks[i]
        IN  ( /\ Called(t) /\ cfg.endpoint = "url"
              /\ \A k \in 1..Len(t.resps) : t.resps[k] = Status(500) )
            => /\ Attempts(t) <= cfg.max_retries
               /\ Len(t.sleeps) <= cfg.max_retries - 1
               /\ \A k \in 1..Len(t.sleeps) :
                     /\ t.sleeps[k] >= SleepLow(k)
                     /\ t.sleeps[k] <= SleepHigh(k)
               /\ (t.pc = "done") = (Len(t.resps) = cfg.max_retries)
               /\ t.pc = "done" =>
                     /\ Attempts(t) = cfg.max_retries
                     /\ Len(t.sleeps) = cfg.max_retries - 1
                     /\ t.result = RetExhausted
                     /\ t.result = "false"
                     /\ LastLog(t) = <<"ERROR", "all_failed">>
               /\ t.pc = "sleep" => Len(t.sleeps) = Attempts(t)
               /\ t.pc = "request" => Len(t.sleeps) = Attempts(t) - 1

\* C2 witness: three attempts all answered 500, two jittered sleeps taken.
C2_Witness ==
    \E i \in TaskIds :
        /\ cfg.max_retries = 3
        /\ tasks[i].resps = <<Status(500), Status(500), Status(500)>>
        /\ tasks[i].pc = "done"
        /\ tasks[i].sleeps = <<SleepLow(1) + 1, SleepLow(2)>>

\* C3: an answer with a status in [400,500) ends the call at once: it is
\* the last answer, the call has returned false on the client-error path,
\* no attempt and no sleep follows it; answered first, it leaves exactly
\* one attempt.
C3_ClientErrorNotRetried ==
    \A i \in TaskIds : \A k \in 1..Len(tasks[i].resps) :
        LET t == tasks[i]
        IN  IsClientError(t.resps[k])
            => /\ k = Len(t.resps)
               /\ t.pc = "done"
               /\ t.result = RetClientError
               /\ t.result = "false"
               /\ LastLog(t) = <<"ERROR", "client_error">>
               /\ Attempts(t) = k
               /\ Len(t.sleeps) = k - 1

\* C3 witness: the first attempt is answered 400 and the call is over.
C3_Witness ==
    \E i \in TaskIds :
        /\ cfg.max_retries > 1
        /\ tasks[i].resps = <<Status(400)>>
        /\ tasks[i].pc = "done"
        /\ Attempts(tasks[i]) = 1

---------------------------------------------------------------------------
(* Agent loop properties, checked under Spec. *)

ActiveTasks == { i \in TaskIds : Active(tasks[i]) }

\* C5: ticks do not overlap: at most one tick has a sendPayload call that
\* is not over (request in flight or backoff sleep).
C5_TicksDoNotOverlap == Cardinality(ActiveTasks) <= 1

\* The time the interval timer was last armed or last fired.
LastArmed == IF Len(tasks) = 1 THEN tasks[1].ended
             ELSE tasks[Len(tasks)].started

\* The time tick i+1 is due, given that the first tick is over.
NextDue(i) == (IF i = 1 THEN tasks[1].ended ELSE tasks[i].started) + Interval

---------------------------------------------------------------------------
(* Identity property, checked under SpecId. *)

\* C6: any two calls of getMachineId in one process return the same value.
C6_SameIdentityTwice ==
    \A i, j \in 1..Len(idCalls) : idCalls[i] = idCalls[j]

---------------------------------------------------------------------------
(* CPU estimator properties, checked under SpecCpu. *)

\* total_delta of a call: the sum over the current CPUs of the total ticks
\* now minus the total ticks stored, a CPU with no stored entry counting
\* from zero.  It is totalDifference of api.js:132 whenever that is computed.
TotalDelta(prev, cpus) ==
    LET cur == CurrentTicks(cpus)
    IN  SumSeq([i \in 1..Len(cur) |->
                   cur[i].total - (IF i <= Len(prev.ticks)
                                   THEN prev.ticks[i].total ELSE 0)])

\* C7: a call with a prior state and total_delta > 0 that returns a value
\* returns one in [0, 100].
C7_UtilizationInRange ==
    ( /\ cpuCall.called /\ ~cpuCall.prev.isNull /\ ~cpuCall.threw
      /\ TotalDelta(cpuCall.prev, cpuCall.cur) > 0 )
    => (cpuCall.value >= 0 /\ cpuCall.value <= 1000)

\* C8: the first call (state null) returns exactly 0, does not throw, and
\* leaves the per-CPU ticks of its reading as the state.
C8_FirstCallIsZero ==
    (cpuCall.called /\ cpuCall.prev.isNull)
    => /\ ~cpuCall.threw
       /\ cpuCall.value = 0
       /\ previousCpuTicks = StoredTicks(CurrentTicks(cpuCall.cur))

\* C8 witness: a first call on a reading of two CPUs with ticks on each.
C8_Witness ==
    /\ cpuCall.called /\ cpuCall.prev.isNull
    /\ Len(cpuCall.cur) = 2
    /\ \A i \in 1..2 : cpuCall.cur[i].busy > 0

\* C9: a call with a prior state and total_delta <= 0 returns 0 and does
\* not throw.
C9_NoElapsedTicksIsZero ==
    ( /\ cpuCall.called /\ ~cpuCall.prev.isNull
      /\ TotalDelta(cpuCall.prev, cpuCall.cur) <= 0 )
    => (~cpuCall.threw /\ cpuCall.value = 0)

---------------------------------------------------------------------------
(* Shutdown, checked under Spec. *)

\* C11 as stated: whatever signal ended the process, interrupt or
\* termination, the exit status is 0.
C11_AnySignalExitsZero == exitStatus.exited => exitStatus.code = 0

\* C11 amended: SIGINT, in whatever state it arrives, ends the process with
\* status 0; once the process has ended, by SIGINT or by SIGTERM, no tick
\* starts, no request is sent and no retry is scheduled.
C11_SigintExitsZero ==
    [][ /\ (~exitStatus.exited /\ exitStatus'.exited
               /\ exitStatus'.signal = "SIGINT") => exitStatus'.code = 0
        /\ exitStatus.exited =>
               /\ tasks' = tasks
               /\ timerNext' = timerNext
               /\ exitStatus' = exitStatus ]_vars

\* C11 witness: SIGINT ended the process with status 0 while one tick was
\* in its backoff sleep and another had a request in flight.
C11_Witness ==
    /\ exitStatus.exited
    /\ exitStatus.signal = "SIGINT"
    /\ exitStatus.code = 0
    /\ \E i, j \in TaskIds : tasks[i].pc = "sleep" /\ tasks[j].pc = "request"

---------------------------------------------------------------------------
(* Transient failures, checked under SpecDeliver. *)

\* A settled attempt that was neither accepted nor refused: a rejected
\* request, or a status outside [200,300) and [400,500).
IsTransient(resp) ==
    \/ resp.type # "status"
    \/ resp.status < 200
    \/ (resp.status >= 300 /\ resp.status < 400)
    \/ resp.status >= 500

OnlyTransient(t) == \A k \in 1..Len(t.resps) : IsTransient(t.resps[k])

\* C12: while every attempt of a call has ended in a transient failure,
\* each failure counts for one attempt and the call goes on to the next
\* attempt; after max_retries of them the call returns Exhausted, and no
\* exception leaves sendPayload.
C12_TransientEndsExhausted ==
    \A i \in TaskIds :
        (cfg.endpoint = "url" /\ OnlyTransient(tasks[i])) =>
            /\ tasks[i].result # "threw"
            /\ tasks[i].thrower = "none"
            /\ Len(tasks[i].resps) <= cfg.max_retries
            /\ tasks[i].pc = "request" =>
                   Attempts(tasks[i]) = Len(tasks[i].resps) + 1
            /\ tasks[i].pc = "sleep" =>
                   /\ Attempts(tasks[i]) = Len(tasks[i].resps)
                   /\ Attempts(tasks[i]) < cfg.max_retries
            /\ tasks[i].pc = "done" =>
                   /\ Attempts(tasks[i]) = cfg.max_retries
                   /\ Len(tasks[i].resps) = cfg.max_retries
                   /\ tasks[i].result = RetExhausted
                   /\ LastLog(tasks[i]) = <<"ERROR", "all_failed">>

\* C12 witness: a call of three attempts that ended by a timeout, a
\* transport error and a status below 200 has returned.
C12_Witness ==
    \E i \in TaskIds :
        /\ tasks[i].pc = "done"
        /\ cfg.max_retries = 3
        /\ tasks[i].resps = <<TimedOut, TransportError, Status(199)>>
        /\ tasks[i].result = RetExhausted

---------------------------------------------------------------------------
(* Startup, checked under Spec. *)

\* C13: the first tick runs at startup, before the interval timer is armed
\* and before any time has passed; with a configured endpoint its first
\* request is issued at time 0.
C13_FirstTickImmediate ==
    /\ mainPc = "start" => (now = 0 /\ tasks = <<>> /\ timerNext = -1)
    /\ mainPc = "firstTick" => timerNext = -1
    /\ Len(tasks) >= 1 =>
           /\ tasks[1].started = 0
           /\ cfg.endpoint = "url" =>
                  /\ Attempts(tasks[1]) >= 1
                  /\ (tasks[1].pc = "request" /\ tasks[1].attempt = 1) =>
                         tasks[1].due = Timeout

\* C13 witness: at time 0, with an interval of 8 s, the first request is
\* in flight and the timer is not yet armed.
C13_Witness ==
    /\ now = 0
    /\ cfg.endpoint = "url"
    /\ cfg.interval_seconds = 8
    /\ Len(tasks) = 1
    /\ tasks[1].pc = "request"
    /\ tasks[1].attempt = 1
    /\ timerNext = -1

---------------------------------------------------------------------------
(* The identity resolver on every file system, checked under SpecId. *)

\* C14: on every file system (each file present, absent or unreadable, the
\* persistence directory writable or not) getMachineId returns a string
\* and no exception leaves it; so did every call made so far.
C14_ResolverNeverFails ==
    /\ ~getMachineId(fs, uuidCtr).threw
    /\ getMachineId(fs, uuidCtr).value \in Seq(STRING)
    /\ \A k \in 1..Len(idCalls) : idCalls[k] \in Seq(STRING)

\* C14 witness: both OS files and the persistence file exist and cannot
\* be read; the call returned a generated UUID.
C14_Witness ==
    /\ \A k \in DOMAIN OsIdPaths : fs.os[k].exists /\ ~fs.os[k].readable
    /\ fs.persist.exists /\ ~fs.persist.readable
    /\ Len(idCalls) >= 1
    /\ idCalls[1] = RandomUUID(1)

---------------------------------------------------------------------------
(* The period of the ticks, checked under Spec. *)

\* Time from the start of a finished tick to the return of its sendPayload.
Processing(t) == t.ended - t.started

\* C15 as stated: each tick, the second included, starts exactly one
\* interval after the start of the tick before it, when that tick took
\* less than the interval.
C15_StartToStartIsInterval ==
    \A i \in 2..Len(tasks) :
        (~Active(tasks[i - 1]) /\ Processing(tasks[i - 1]) < Interval) =>
            tasks[i].started = tasks[i - 1].started + Interval

\* C15 amended: the second tick starts one full interval after the first
\* tick's sendPayload has returned; every later tick starts exactly one
\* interval after the start of the tick before it.
C15_IntervalFromFirstReturn ==
    \A i \in 2..Len(tasks) :
        /\ i = 2 => ( /\ ~Active(tasks[1])
                      /\ tasks[2].started = tasks[1].ended + Interval )
        /\ i > 2 => tasks[i].started = tasks[i - 1].started + Interval

\* C15 witness: the first tick took time, less than the interval; the
\* second and the third tick have started.
C15_Witness ==
    /\ Len(tasks) = 3
    /\ Processing(tasks[1]) > 0
    /\ Processing(tasks[1]) < Interval
    /\ tasks[2].started = tasks[1].ended + Interval
    /\ tasks[3].started = tasks[2].started + Interval

---------------------------------------------------------------------------
(* Empty identity files, checked under SpecId. *)

\* The file exists, can be read and holds nothing but whitespace.
Blank(file) == file.exists /\ file.readable /\ Trim(file.content) = <<>>

\* C16: when the first OS identity file is empty or whitespace only, and
\* neither the second candidate nor the persistence file is, getMachineId
\* does not return the empty string.
C16_EmptyFileFallsThrough ==
    (/\ Blank(fs.os[1])
     /\ ~Blank(fs.os[2])
     /\ ~Blank(fs.persist)) =>
        \A k \in 1..Len(idCalls) : idCalls[k] # <<>>

---------------------------------------------------------------------------
(* The stored CPU reading, checked under SpecCpu. *)

\* C17: after a call of calculateCpuPercent, whatever its outcome, the
\* stored state is the reading of that call.
C17_StateReplacedOnEveryCall ==
    cpuCall.called =>
        previousCpuTicks = StoredTicks(CurrentTicks(cpuCall.cur))

---------------------------------------------------------------------------
(* Independence of the calls of sendPayload, checked under Spec. *)

\* The call is over without an exception.
Returned(t) == ~Active(t) /\ Called(t) /\ t.result # "threw"

\* C18: each call of sendPayload on a configured endpoint numbers its
\* attempts from 1 and, when it sleeps, sleeps first for backoff_base^1
\* plus jitter, whatever the calls before it returned; a tick that was
\* not configured sends nothing, and after a tick that is over, however it
\* ended, the interval timer stays armed for the next tick.
C18_CallsAreIndependent ==
    \A i \in TaskIds :
        /\ (Called(tasks[i]) /\ cfg.endpoint = "url") =>
               /\ Attempts(tasks[i]) >= 1
               /\ tasks[i].attempt = Attempts(tasks[i])
               /\ tasks[i].sleeps # <<>> =>
                      /\ tasks[i].sleeps[1] >= SleepLow(1)
                      /\ tasks[i].sleeps[1] < SleepHigh(1)
        /\ (Called(tasks[i]) /\ cfg.endpoint = "NULL") =>
               /\ Attempts(tasks[i]) = 0
               /\ tasks[i].result = RetUnconfigured
        /\ Returned(tasks[i]) =>
               /\ mainPc = "looping"
               /\ timerNext = LastArmed + Interval
               /\ i < Len(tasks) => tasks[i + 1].started = NextDue(i)

\* C18 witness: the first call slept and ran out of attempts; the second,
\* started after the first was over, has taken its first sleep.
C18_Witness ==
    /\ Len(tasks) >= 2
    /\ tasks[1].pc = "done"
    /\ Len(tasks[1].sleeps) >= 1
    /\ LastLog(tasks[1]) = <<"ERROR", "all_failed">>
    /\ tasks[2].started >= tasks[1].ended
    /\ Len(tasks[2].sleeps) >= 1
    /\ tasks[2].sleeps[1] >= SleepLow(1)
    /\ tasks[2].sleeps[1] < SleepHigh(1)

---------------------------------------------------------------------------
(* Bounds of one call, checked under SpecDeliver. *)

\* Log lines that end a call on a configured endpoint.
OutcomeLogs == { <<"INFO", "accepted">>, <<"ERROR", "client_error">>,
                 <<"ERROR", "all_failed">> }

\* The latest time a call of n attempts can take: n timeouts and the
\* longest sleep after each attempt but the last.
Deadline(n) ==
    n * Timeout + SumSeq([k \in 1..(n - 1) |-> SleepHigh(k)])

\* C19: a call on a configured endpoint makes between 1 and max_retries
\* attempts; a sleep is taken only after an attempt and is followed by
\* another attempt, so a call that is over has slept once less than it
\* has attempted; the call is over within a bounded time, a step is
\* always possible until then, and it ends with one outcome.
C19_BoundedAttemptsAndSleeps ==
    \A i \in TaskIds :
        LET t == tasks[i]
        IN  cfg.endpoint = "url" =>
                /\ Attempts(t) >= 1
                /\ Attempts(t) <= cfg.max_retries
                /\ t.pc = "request" => Len(t.sleeps) = Attempts(t) - 1
                /\ t.pc = "sleep" => /\ Len(t.sleeps) = Attempts(t)
                                     /\ Attempts(t) < cfg.max_retries
                /\ Active(t) => /\ t.result = "none"
                                /\ now <= t.started + Deadline(cfg.max_retries)
                                /\ ENABLED NextDeliver
                /\ ~Active(t) =>
                       /\ Len(t.sleeps) = Attempts(t) - 1
                       /\ Len(t.resps) = Attempts(t)
                       /\ t.ended <= t.started + Deadline(Attempts(t))
                       /\ t.result \in {RetAccepted, RetClientError,
                                        RetExhausted}
                       /\ LastLog(t) \in OutcomeLogs
                       /\ Cardinality({k \in 1..Len(t.logs) :
                                          t.logs[k] \in OutcomeLogs}) = 1

\* C19 witness: a call of three attempts and two sleeps, ended by a 500, a
\* transport error and a 200, has returned.
C19_Witness ==
    \E i \in TaskIds :
        /\ tasks[i].pc = "done"
        /\ tasks[i].resps = <<Status(500), TransportError, Status(200)>>
        /\ Attempts(tasks[i]) = 3
        /\ Len(tasks[i].sleeps) = 2
        /\ tasks[i].result = RetAccepted

---------------------------------------------------------------------------
(* What sendPayload sends and what it leaves alone, checked under Spec. *)

\* Every request of every call carried the serialized snapshot the call
\* was given.
SameSnapshotSent ==
    \A i \in TaskIds : \A k \in 1..Len(tasks[i].sent) :
        tasks[i].sent[k] = Serialize(tasks[i].payload)

\* A step leaves the configuration alone, never changes the snapshot of a
\* tick, and changes the stored CPU reading only when a new tick samples,
\* to that sample's reading; the steps of a pending sendPayload (response,
\* timeout, end of a sleep) leave it alone.
SendPayloadFrame ==
    /\ cfg' = cfg
    /\ \A i \in TaskIds : tasks'[i].payload = tasks[i].payload
    /\ previousCpuTicks' # previousCpuTicks =>
           /\ Len(tasks') = Len(tasks) + 1
           /\ ~cpuCall'.threw
           /\ previousCpuTicks' = StoredTicks(CurrentTicks(cpuCall'.cur))

\* C20: all attempts of one call send the same serialized snapshot, and
\* sendPayload changes neither the configuration nor the CPU sample state.
C20_SameSnapshotNoSideEffect ==
    []SameSnapshotSent /\ [][SendPayloadFrame]_vars

\* C20 witness: a call has sent its snapshot twice, more than a second
\* apart, while a later tick has sampled a different snapshot in between.
C20_Witness ==
    \E i \in TaskIds :
        /\ Len(tasks[i].sent) >= 2
        /\ tasks[i].sent[1] = tasks[i].sent[2]
        /\ i < Len(tasks)
        /\ tasks[i + 1].payload # tasks[i].payload
        /\ tasks[i + 1].started < tasks[i].started + Len(tasks[i].sleeps)
                                     * SleepLow(1)
        /\ ~previousCpuTicks.isNull

===========================================================================
